---- MODULE Spec2Model ----
(***************************************************************************)
(* ZotWatch: candidate filtering (src/dedupe.py) and ranking               *)
(* (src/score_rank.py).                                                    *)
(*                                                                         *)
(* Python strings are sequences of one-character strings, so that          *)
(* lower(), strip(), re.sub(r"\s+", " ", ...) and split() are computed as  *)
(* the code computes them.  None is the value NoneVal.                     *)
(***************************************************************************)
EXTENDS Integers, Sequences, FiniteSets, TLC

\* ------------------------------------------------------------------ bounds
MaxBatch == 3
MaxKnown == 1
MaxCalls == 2
MaxAdvance == 1
\* time is counted in ticks
TicksPerDay == 2

MaxVecCalls == 3

MaxTexts == 2

MaxVectors == 2

MaxRanked == 5

\* ----------------------------------------------------------- Python values
NoneVal == <<"None">>

Truthy(v) == v # NoneVal /\ v # <<>>

Whitespace == {" ", "\t"}

Lower(c) ==
    CASE c = "A" -> "a"
      [] c = "B" -> "b"
      [] c = "C" -> "c"
      [] c = "D" -> "d"
      [] c = "E" -> "e"
      [] c = "X" -> "x"
      [] c = "Y" -> "y"
      [] OTHER -> c

CharOrd(c) ==
    CASE c = "\t" -> 9
      [] c = " " -> 32
      [] c = "A" -> 65
      [] c = "B" -> 66
      [] c = "C" -> 67
      [] c = "D" -> 68
      [] c = "E" -> 69
      [] c = "X" -> 88
      [] c = "Y" -> 89
      [] c = "a" -> 97
      [] c = "b" -> 98
      [] c = "c" -> 99
      [] c = "d" -> 100
      [] c = "e" -> 101
      [] c = "x" -> 120
      [] c = "y" -> 121
      [] OTHER -> 0

StrLower(s) == [i \in 1..Len(s) |-> Lower(s[i])]

RECURSIVE LStrip(_)
LStrip(s) ==
    IF s # <<>> /\ Head(s) \in Whitespace THEN LStrip(Tail(s)) ELSE s

RECURSIVE RStrip(_)
RStrip(s) ==
    IF s # <<>> /\ s[Len(s)] \in Whitespace
    THEN RStrip(SubSeq(s, 1, Len(s) - 1))
    ELSE s

StrStrip(s) == RStrip(LStrip(s))

\* re.sub(r"\s+", " ", s): every maximal run of whitespace becomes one space
RECURSIVE CollapseWhitespace(_)
CollapseWhitespace(s) ==
    IF s = <<>> THEN <<>>
    ELSE IF Head(s) \in Whitespace
         THEN <<" ">> \o CollapseWhitespace(LStrip(s))
         ELSE <<Head(s)>> \o CollapseWhitespace(Tail(s))

\* the first whitespace-free word of s, s not starting with whitespace
RECURSIVE FirstWord(_)
FirstWord(s) ==
    IF s = <<>> \/ Head(s) \in Whitespace THEN <<>>
    ELSE <<Head(s)>> \o FirstWord(Tail(s))

\* set(s.split())
RECURSIVE SplitTokens(_)
SplitTokens(s) ==
    LET t == LStrip(s) IN
    IF t = <<>> THEN {}
    ELSE LET w == FirstWord(t) IN
         {w} \cup SplitTokens(SubSeq(t, Len(w) + 1, Len(t)))

RECURSIVE StrLess(_, _)
StrLess(s, t) ==
    IF t = <<>> THEN FALSE
    ELSE IF s = <<>> THEN TRUE
    ELSE IF Head(s) # Head(t) THEN CharOrd(Head(s)) < CharOrd(Head(t))
    ELSE StrLess(Tail(s), Tail(t))

\* " ".join(sorted(tokens))
RECURSIVE JoinSorted(_)
JoinSorted(tokens) ==
    IF tokens = {} THEN <<>>
    ELSE LET first == CHOOSE w \in tokens : \A v \in tokens \ {w} : StrLess(w, v)
             rest == tokens \ {first}
         IN IF rest = {} THEN first ELSE first \o <<" ">> \o JoinSorted(rest)

\* length of the longest common subsequence
RECURSIVE LCSLen(_, _)
LCSLen(s, t) ==
    IF s = <<>> \/ t = <<>> THEN 0
    ELSE IF Head(s) = Head(t) THEN 1 + LCSLen(Tail(s), Tail(t))
    ELSE LET a == LCSLen(Tail(s), t)
             b == LCSLen(s, Tail(t))
         IN IF a >= b THEN a ELSE b

IndelDistance(s, t) == Len(s) + Len(t) - 2 * LCSLen(s, t)

\* A similarity in [0, 1] is the exact fraction <<num, den>>, den > 0.
NormSim(dist, lensum) ==
    IF lensum = 0 THEN <<1, 1>> ELSE <<lensum - dist, lensum>>

FracGE(p, q) == p[1] * q[2] >= q[1] * p[2]

FracMax(p, q) == IF FracGE(p, q) THEN p ELSE q

\* rapidfuzz.fuzz.token_set_ratio(s1, s2) / 100.0, no processor
token_set_ratio(s1, s2) ==
    IF s1 = <<>> \/ s2 = <<>> THEN <<0, 1>>
    ELSE
    LET tokens_a == SplitTokens(s1)
        tokens_b == SplitTokens(s2)
    IN
    IF tokens_a = {} \/ tokens_b = {} THEN <<0, 1>>
    ELSE
    LET intersect == tokens_a \cap tokens_b
        diff_ab == tokens_a \ tokens_b
        diff_ba == tokens_b \ tokens_a
    IN
    IF intersect # {} /\ (diff_ab = {} \/ diff_ba = {}) THEN <<1, 1>>
    ELSE
    LET diff_ab_joined == JoinSorted(diff_ab)
        diff_ba_joined == JoinSorted(diff_ba)
        ab_len == Len(diff_ab_joined)
        ba_len == Len(diff_ba_joined)
        sect_len == Len(JoinSorted(intersect))
        sep == IF sect_len # 0 THEN 1 ELSE 0
        sect_ab_len == sect_len + sep + ab_len
        sect_ba_len == sect_len + sep + ba_len
        result == NormSim(IndelDistance(diff_ab_joined, diff_ba_joined),
                          sect_ab_len + sect_ba_len)
    IN
    IF sect_len = 0 THEN result
    ELSE
    LET sect_ab_ratio == NormSim(sep + ab_len, sect_len + sect_ab_len)
        sect_ba_ratio == NormSim(sep + ba_len, sect_len + sect_ba_len)
    IN FracMax(result, FracMax(sect_ab_ratio, sect_ba_ratio))

\* -------------------------------------------------------------- dedupe.py
\* lower() without strip()
_normalize_identifier_nostrip(value) ==
    StrLower(IF value = NoneVal THEN <<>> ELSE value)

_normalize_identifier(value) ==
    StrStrip(StrLower(IF value = NoneVal THEN <<>> ELSE value))

\* whitespace collapsed and stripped, case kept
_normalize_title_nolower(title) ==
    StrStrip(CollapseWhitespace(IF title = NoneVal THEN <<>> ELSE title))

_normalize_title(title) ==
    StrLower(StrStrip(CollapseWhitespace(IF title = NoneVal THEN <<>> ELSE title)))

\* score > threshold in place of score >= threshold
RECURSIVE _is_title_in_list_strict(_, _, _)
_is_title_in_list_strict(title, title_list, threshold) ==
    IF title_list = <<>> THEN FALSE
    ELSE LET existing == Head(title_list) IN
         IF existing = <<>>
         THEN _is_title_in_list_strict(title, Tail(title_list), threshold)
         ELSE IF ~FracGE(threshold, token_set_ratio(title, existing))
              THEN TRUE
              ELSE _is_title_in_list_strict(title, Tail(title_list), threshold)

RECURSIVE _is_title_in_list(_, _, _)
_is_title_in_list(title, title_list, threshold) ==
    IF title_list = <<>> THEN FALSE
    ELSE LET existing == Head(title_list) IN
         IF existing = <<>>
         THEN _is_title_in_list(title, Tail(title_list), threshold)
         ELSE IF FracGE(token_set_ratio(title, existing), threshold)
              THEN TRUE
              ELSE _is_title_in_list(title, Tail(title_list), threshold)

_is_title_duplicate(self, title) ==
    _is_title_in_list(title, self.existing_titles, self.title_threshold)

\* DedupeEngine._load_existing over storage.iter_items()
RECURSIVE _load_existing(_, _)
_load_existing(self, items) ==
    IF items = <<>> THEN self
    ELSE LET item == Head(items) IN
         _load_existing(
            [self EXCEPT
               !.existing_doi = IF Truthy(item.doi)
                                THEN @ \cup {_normalize_identifier(item.doi)}
                                ELSE @,
               !.existing_ids = IF Truthy(item.url)
                                THEN @ \cup {_normalize_identifier(item.url)}
                                ELSE @,
               !.existing_titles = Append(@, _normalize_title(item.title))],
            Tail(items))

\* DedupeEngine.__init__
DedupeEngine(items, threshold) ==
    _load_existing([title_threshold |-> threshold,
                    existing_doi |-> {},
                    existing_ids |-> {},
                    existing_titles |-> <<>>], items)

\* deduped.insert(0, work) in place of deduped.append(work)
FilterStep_prepend(self, st, work) ==
    LET key == _normalize_identifier(work.identifier)
        doi == IF Truthy(work.doi) THEN _normalize_identifier(work.doi) ELSE NoneVal
        title == _normalize_title(work.title)
    IN
    IF Truthy(doi) /\ doi \in self.existing_doi THEN st
    ELSE IF Truthy(doi) /\ doi \in st.seen_keys THEN st
    ELSE IF key \in self.existing_ids \/ key \in st.seen_keys THEN st
    ELSE IF \/ _is_title_duplicate(self, title)
            \/ _is_title_in_list(title, st.candidate_titles, self.title_threshold)
         THEN st
    ELSE [deduped |-> <<work>> \o st.deduped,
          candidate_titles |-> Append(st.candidate_titles, title),
          seen_keys |-> st.seen_keys \cup {key}
                        \cup (IF Truthy(doi) THEN {doi} ELSE {})]

\* the body of the loop of DedupeEngine.filter for one work; the loop state
\* is [deduped, candidate_titles, seen_keys]
FilterStep(self, st, work) ==
    LET key == _normalize_identifier(work.identifier)
        doi == IF Truthy(work.doi) THEN _normalize_identifier(work.doi) ELSE NoneVal
        title == _normalize_title(work.title)
    IN
    IF Truthy(doi) /\ doi \in self.existing_doi THEN st
    ELSE IF Truthy(doi) /\ doi \in st.seen_keys THEN st
    ELSE IF key \in self.existing_ids \/ key \in st.seen_keys THEN st
    ELSE IF \/ _is_title_duplicate(self, title)
            \/ _is_title_in_list(title, st.candidate_titles, self.title_threshold)
         THEN st
    ELSE [deduped |-> Append(st.deduped, work),
          candidate_titles |-> Append(st.candidate_titles, title),
          seen_keys |-> st.seen_keys \cup {key}
                        \cup (IF Truthy(doi) THEN {doi} ELSE {})]

\* a loop that drops a rejected work from the list it iterates over, so that
\* the work after a rejected one is never examined and stays in the list
RECURSIVE FilterLoop_skip(_, _, _)
FilterLoop_skip(self, st, source) ==
    IF source = <<>> THEN st
    ELSE LET after == FilterStep(self, st, Head(source)) IN
         IF after = st /\ Len(source) >= 2
         THEN FilterLoop_skip(self,
                              [st EXCEPT !.deduped = Append(@, source[2])],
                              Tail(Tail(source)))
         ELSE FilterLoop_skip(self, after, Tail(source))

RECURSIVE FilterLoop(_, _, _)
FilterLoop(self, st, source) ==
    IF source = <<>> THEN st
    ELSE FilterLoop(self, FilterStep(self, st, Head(source)), Tail(source))

\* DedupeEngine.filter
Filter(self, candidates) ==
    FilterLoop(self,
               [deduped |-> <<>>, candidate_titles |-> <<>>, seen_keys |-> {}],
               candidates).deduped

\* a filter that keeps what it accepted in the engine: the keys among the
\* known identifiers, the titles among the known titles
FilterOn_remembering(self, candidates) ==
    LET st == FilterLoop(self,
                         [deduped |-> <<>>, candidate_titles |-> <<>>, seen_keys |-> {}],
                         candidates)
    IN [self |-> [self EXCEPT !.existing_ids = @ \cup st.seen_keys,
                              !.existing_titles = @ \o st.candidate_titles],
        deduped |-> st.deduped]

\* one call of DedupeEngine.filter on an engine: the engine after the call
\* and the list returned. filter reads self.existing_doi, self.existing_ids,
\* self.existing_titles and self.title_threshold and assigns to none of
\* them; deduped, candidate_titles and seen_keys are locals of the call.
FilterOn(self, candidates) ==
    [self |-> self, deduped |-> Filter(self, candidates)]

\* ----------------------------------------------------------- vectorizer.py
\* integer square root
ISqrt(n) == CHOOSE r \in 0..n : r * r <= n /\ n < (r + 1) * (r + 1)

\* CandidateWork.content_for_embedding: the parts that are joined
content_for_embedding(c) == <<c.title, c.authors>>

\* the raw embedding the sentence model returns for a text
ModelEmbedding(text) ==
    CASE text[1] = <<"t", "0">> -> <<0, 0>>
      [] text[1] = <<"t", "1">> -> <<1, 0>>
      [] text[1] = <<"t", "2">> -> <<4, 3>>
      [] text[1] = <<"t", "3">> -> <<3, 4>>
      [] OTHER -> <<0, 2>>

\* TextVectorizer.encode for one row: embedding / (norm + 1e-12), in
\* thousandths
encode(text) ==
    LET e == ModelEmbedding(text)
        norm == ISqrt(e[1] * e[1] + e[2] * e[2])
    IN IF norm = 0 THEN <<0, 0>>
       ELSE <<(e[1] * 1000) \div norm, (e[2] * 1000) \div norm>>

\* TextVectorizer.encode for a list of texts
EncodeAll(texts) == [i \in 1..Len(texts) |-> encode(texts[i])]

\* TextVectorizer.__init__
TextVectorizer == [_model |-> NoneVal]

\* a load that constructs the model on every call
load_unconditional(self, available, built) ==
    IF ~available THEN [self |-> self, built |-> built, error |-> "RuntimeError"]
    ELSE [self |-> [self EXCEPT !._model = <<"model", built + 1>>],
          built |-> built + 1, error |-> "none"]

\* TextVectorizer.load: available says whether the import of
\* SentenceTransformer succeeded, built counts the models constructed so
\* far; the k-th model constructed is <<"model", k>>
load(self, available, built) ==
    IF self._model # NoneVal THEN [self |-> self, built |-> built, error |-> "none"]
    ELSE IF ~available THEN [self |-> self, built |-> built, error |-> "RuntimeError"]
    ELSE [self |-> [self EXCEPT !._model = <<"model", built + 1>>],
          built |-> built + 1, error |-> "none"]

\* TextVectorizer.encode on the object: load(), then the model property
\* (which calls load() again), then the rows
EncodeCall(self, available, built, texts) ==
    LET first == load(self, available, built) IN
    IF first.error # "none" THEN first @@ [out |-> <<>>]
    ELSE LET second == load(first.self, available, first.built) IN
         IF second.error # "none" THEN second @@ [out |-> <<>>]
         ELSE second @@ [out |-> EncodeAll(texts)]

\* ---------------------------------------------------------- faiss_store.py
InnerProduct(u, v) == (u[1] * v[1] + u[2] * v[2]) \div 1000

Max(S) == CHOOSE m \in S : \A n \in S : n <= m

\* FaissIndex.from_vectors on an array [ndim, rows]: the index holds the rows
\* added to it; order is np.arange(N)
from_vectors(vectors) ==
    IF vectors.ndim # 2
    THEN [error |-> "ValueError", index |-> <<>>, order |-> <<>>]
    ELSE [error |-> "none", index |-> vectors.rows,
          order |-> [i \in 1..Len(vectors.rows) |-> i - 1]]

\* a load that accepts an index without vectors
FaissIndex_load_unchecked(artifacts) ==
    IF ~artifacts.index_exists THEN [error |-> "RuntimeError", index |-> <<>>]
    ELSE [error |-> "none", index |-> artifacts.index]

\* FaissIndex.load on the persisted artifacts: faiss.read_index raises a
\* RuntimeError for a file it cannot open
FaissIndex_load(artifacts) ==
    IF ~artifacts.index_exists THEN [error |-> "RuntimeError", index |-> <<>>]
    ELSE IF Len(artifacts.index) = 0 THEN [error |-> "ValueError", index |-> <<>>]
    ELSE [error |-> "none", index |-> artifacts.index]

\* FaissIndex.search(vectors, top_k=1) for one row of an IndexFlatIP
search(index, vector) == Max({ InnerProduct(vector, index[i]) : i \in 1..Len(index) })

\* -------------------------------------------------------- build_profile.py
\* ZoteroItem.content_for_embedding: the parts that are joined
item_content_for_embedding(item) == <<item.title, <<>>>>

\* ProfileBuilder.run: what the call leaves behind, given the stored items,
\* the builder's vectorizer and the artifacts and embeddings present before
ProfileBuilder_run(items, self_vectorizer, available, built, artifacts, stored) ==
    IF items = <<>>
    THEN [error |-> "RuntimeError", vectorizer |-> self_vectorizer, built |-> built,
          encoded |-> FALSE, artifacts |-> artifacts, embeddings |-> stored]
    ELSE LET texts == [i \in 1..Len(items) |-> item_content_for_embedding(items[i])]
             enc == EncodeCall(self_vectorizer, available, built, texts)
         IN IF enc.error # "none"
            THEN [error |-> enc.error, vectorizer |-> enc.self, built |-> enc.built,
                  encoded |-> TRUE, artifacts |-> artifacts, embeddings |-> stored]
            ELSE LET made == from_vectors([ndim |-> 2, rows |-> enc.out]) IN
                 [error |-> "none", vectorizer |-> enc.self, built |-> enc.built,
                  encoded |-> TRUE,
                  artifacts |-> [index_exists |-> TRUE, index |-> made.index,
                                 profile_exists |-> TRUE],
                  embeddings |-> enc.out]

\* ----------------------------------------------------------- score_rank.py
\* float(np.log1p(x)) in thousandths, x a count
Log1pCount(x) ==
    CASE x = 0 -> 0
      [] x = 1 -> 693
      [] x = 2 -> 1099
      [] x = 3 -> 1386
      [] x = 4 -> 1609
      [] OTHER -> 1792

\* float(np.log1p(value)) in thousandths, value in thousandths
Log1pMilli(value) ==
    CASE value = 500 -> 405
      [] value = 1718 -> 999
      [] value = 3000 -> 1386
      [] OTHER -> 2398

DictGet(d, k, default) == IF k \in DOMAIN d THEN d[k] ELSE default

_bonus(values, whitelist) ==
    LET whitelist_lower == { StrLower(v) : v \in whitelist } IN
    IF \E i \in 1..Len(values) :
         Truthy(values[i]) /\ StrLower(values[i]) \in whitelist_lower
    THEN 1000 ELSE 0

\* the score log(1 + value) without the floor at 1.0
_journal_quality_score_nofloor(venue, metrics) ==
    IF ~Truthy(venue) THEN <<1000, NoneVal>>
    ELSE LET key == StrLower(StrStrip(venue)) IN
         IF key \notin DOMAIN metrics THEN <<1000, NoneVal>>
         ELSE <<Log1pMilli(metrics[key]), metrics[key]>>

_journal_quality_score(venue, metrics) ==
    IF ~Truthy(venue) THEN <<1000, NoneVal>>
    ELSE LET key == StrLower(StrStrip(venue)) IN
         IF key \notin DOMAIN metrics THEN <<1000, NoneVal>>
         ELSE LET value == metrics[key]
                  score == Log1pMilli(value)
              IN <<IF score < 1000 THEN 1000 ELSE score, value>>

\* (now - published).days
AgeDays(now, published) == (now - published[1]) \div TicksPerDay

\* delta_days < boundary in place of delta_days <= boundary
_compute_recency_exclusive(published, settings, now) ==
    IF published = NoneVal THEN 0
    ELSE LET days == AgeDays(now, published)
             delta_days == IF days > 0 THEN days ELSE 0
             decay == settings.decay_days
         IN IF delta_days < DictGet(decay, "fast", 30) THEN 1000
            ELSE IF delta_days < DictGet(decay, "medium", 60) THEN 700
            ELSE IF delta_days < DictGet(decay, "slow", 180) THEN 400
            ELSE 100

\* now is the value datetime.now(timezone.utc) returns in this call; a
\* timestamp without timezone is read as UTC
_compute_recency(published, settings, now) ==
    IF published = NoneVal THEN 0
    ELSE LET days == AgeDays(now, published)
             delta_days == IF days > 0 THEN days ELSE 0
             decay == settings.decay_days
         IN IF delta_days <= DictGet(decay, "fast", 30) THEN 1000
            ELSE IF delta_days <= DictGet(decay, "medium", 60) THEN 700
            ELSE IF delta_days <= DictGet(decay, "slow", 180) THEN 400
            ELSE 100

_compute_metric(candidate) ==
    LET citations == DictGet(candidate.metrics, "cited_by",
                             DictGet(candidate.metrics, "is-referenced-by", 0))
        altmetric == DictGet(candidate.metrics, "altmetric", 0)
    IN <<IF citations # 0 THEN Log1pCount(citations) ELSE 0,
         IF altmetric # 0 THEN Log1pCount(altmetric) ELSE 0>>

\* score > threshold in place of score >= threshold
Label_exclusive(score, thresholds) ==
    IF score > thresholds.must_read THEN "must_read"
    ELSE IF score > thresholds.consider THEN "consider"
    ELSE "ignore"

\* lines 104-108 of rank
Label(score, thresholds) ==
    IF score >= thresholds.must_read THEN "must_read"
    ELSE IF score >= thresholds.consider THEN "consider"
    ELSE "ignore"

\* a journal-quality weight that defaults to 0.1 when it is not configured
ScoreOne_default_quality_weight(self, candidate, now) ==
    LET weights == self.settings.weights
        similarity == search(self.index, encode(content_for_embedding(candidate)))
        recency_score == _compute_recency(candidate.published, self.settings, now)
        metric == _compute_metric(candidate)
        jq == _journal_quality_score(candidate.venue, self.journal_metrics)
        author_bonus == _bonus(candidate.authors, self.settings.whitelist_authors)
        venue_bonus == _bonus(IF Truthy(candidate.venue) THEN <<candidate.venue>> ELSE <<>>,
                              self.settings.whitelist_venues)
        score == similarity * weights.similarity
                 + recency_score * weights.recency
                 + metric[1] * weights.citations
                 + metric[2] * weights.altmetric
                 + jq[1] * DictGet(weights, "journal_quality", 10)
                 + author_bonus * weights.author_bonus
                 + venue_bonus * weights.venue_bonus
    IN candidate @@
       [score |-> score,
        similarity |-> similarity,
        recency_score |-> recency_score,
        metric_score |-> metric[1],
        author_bonus |-> author_bonus,
        venue_bonus |-> venue_bonus,
        journal_quality |-> jq[1],
        journal_sjr |-> jq[2],
        label |-> Label(score, self.settings.thresholds)]

\* the body of the loop of WorkRanker.rank for one candidate: the RankedWork
\* it appends.  Components are in thousandths, weights in hundredths, the
\* score in units of 1e-5.
ScoreOne(self, candidate, now) ==
    LET weights == self.settings.weights
        similarity == search(self.index, encode(content_for_embedding(candidate)))
        recency_score == _compute_recency(candidate.published, self.settings, now)
        metric == _compute_metric(candidate)
        jq == _journal_quality_score(candidate.venue, self.journal_metrics)
        author_bonus == _bonus(candidate.authors, self.settings.whitelist_authors)
        venue_bonus == _bonus(IF Truthy(candidate.venue) THEN <<candidate.venue>> ELSE <<>>,
                              self.settings.whitelist_venues)
        score == similarity * weights.similarity
                 + recency_score * weights.recency
                 + metric[1] * weights.citations
                 + metric[2] * weights.altmetric
                 + jq[1] * DictGet(weights, "journal_quality", 0)
                 + author_bonus * weights.author_bonus
                 + venue_bonus * weights.venue_bonus
    IN candidate @@
       [score |-> score,
        similarity |-> similarity,
        recency_score |-> recency_score,
        metric_score |-> metric[1],
        author_bonus |-> author_bonus,
        venue_bonus |-> venue_bonus,
        journal_quality |-> jq[1],
        journal_sjr |-> jq[2],
        label |-> Label(score, self.settings.thresholds)]

\* the list rank has built when the loop ends, in input order; nows[i] is the
\* clock reading taken while candidates[i] is scored
ScoreAll(self, candidates, nows) ==
    [i \in 1..Len(candidates) |-> ScoreOne(self, candidates[i], nows[i])]

\* an ascending sort that is reversed afterwards
RECURSIVE SortByScore_reversed(_)
SortByScore_reversed(works) ==
    IF works = <<>> THEN <<>>
    ELSE LET w == Head(works)
             rest == SortByScore_reversed(Tail(works))
             before == SelectSeq(rest, LAMBDA r : r.score >= w.score)
             after == SelectSeq(rest, LAMBDA r : r.score < w.score)
         IN before \o <<w>> \o after

\* ranked.sort(key=lambda w: w.score, reverse=True): the stable sort of
\* Python, descending
RECURSIVE SortByScore(_)
SortByScore(works) ==
    IF works = <<>> THEN <<>>
    ELSE LET w == Head(works)
             rest == SortByScore(Tail(works))
             before == SelectSeq(rest, LAMBDA r : r.score > w.score)
             after == SelectSeq(rest, LAMBDA r : r.score <= w.score)
         IN before \o <<w>> \o after

\* WorkRanker.rank
Rank(self, candidates, nows) ==
    IF candidates = <<>> THEN <<>>
    ELSE SortByScore(ScoreAll(self, candidates, nows))

\* WorkRanker.__init__: the index is loaded first, then the profile summary,
\* then the journal metrics; metrics is the table the csv file holds
WorkRanker(settings, artifacts, metrics) ==
    LET loaded == FaissIndex_load(artifacts) IN
    IF loaded.error # "none"
    THEN [error |-> loaded.error, index |-> <<>>, journal_metrics |-> <<>>]
    ELSE IF ~artifacts.profile_exists
    THEN [error |-> "FileNotFoundError", index |-> <<>>, journal_metrics |-> <<>>]
    ELSE [error |-> "none", index |-> loaded.index, journal_metrics |-> metrics]

\* ------------------------------------------------------------------ cli.py
\* _filter_recent: now is the clock reading of the call; comparing a
\* timestamp without timezone with the cutoff raises TypeError
_filter_recent(works, days, now) ==
    IF days <= 0 THEN [error |-> "none", kept |-> works]
    ELSE LET cutoff == now - days * TicksPerDay IN
         IF \E i \in 1..Len(works) :
              works[i].published # NoneVal /\ works[i].published[2] = "none"
         THEN [error |-> "TypeError", kept |-> <<>>]
         ELSE [error |-> "none",
               kept |-> SelectSeq(works, LAMBDA w : w.published # NoneVal
                                                    /\ w.published[1] >= cutoff)]

\* preprint_sources
PreprintSources ==
    { <<"a", "r", "x", "i", "v">>,
      <<"b", "i", "o", "r", "x", "i", "v">>,
      <<"m", "e", "d", "r", "x", "i", "v">> }

\* a cap tested with the number of preprints kept so far, the proposed one
\* not counted
RECURSIVE LimitLoop_uncounted(_, _, _, _)
LimitLoop_uncounted(works, max_ratio, filtered, preprint_count) ==
    IF works = <<>> THEN filtered
    ELSE LET work == Head(works)
             proposed_total == Len(filtered) + 1
         IN IF StrLower(work.source) \in PreprintSources
            THEN IF preprint_count * max_ratio[2] > max_ratio[1] * proposed_total
                 THEN LimitLoop_uncounted(Tail(works), max_ratio, filtered, preprint_count)
                 ELSE LimitLoop_uncounted(Tail(works), max_ratio, Append(filtered, work),
                                          preprint_count + 1)
            ELSE LimitLoop_uncounted(Tail(works), max_ratio, Append(filtered, work),
                                     preprint_count)

\* the loop of _limit_preprints; max_ratio is a fraction <<num, den>>
RECURSIVE LimitLoop(_, _, _, _)
LimitLoop(works, max_ratio, filtered, preprint_count) ==
    IF works = <<>> THEN filtered
    ELSE LET work == Head(works)
             proposed_total == Len(filtered) + 1
             proposed_preprints == preprint_count + 1
         IN IF StrLower(work.source) \in PreprintSources
            THEN IF proposed_preprints * max_ratio[2] > max_ratio[1] * proposed_total
                 THEN LimitLoop(Tail(works), max_ratio, filtered, preprint_count)
                 ELSE LimitLoop(Tail(works), max_ratio, Append(filtered, work),
                                proposed_preprints)
            ELSE LimitLoop(Tail(works), max_ratio, Append(filtered, work), preprint_count)

_limit_preprints(works, max_ratio) ==
    IF works = <<>> \/ max_ratio[1] <= 0 THEN works
    ELSE LimitLoop(works, max_ratio, <<>>, 0)

\* a cut one work late: ranked[:top + 1]
Truncate_inclusive(works, top) ==
    IF top # 0 /\ Len(works) > top THEN SubSeq(works, 1, top + 1) ELSE works

\* lines 96-97 of run_watch: ranked[:top], top >= 0
Truncate(works, top) ==
    IF top # 0 /\ Len(works) > top THEN SubSeq(works, 1, top) ELSE works

\* ------------------------------------------------------------ input pools
\* storage rows (ZoteroItem.doi, .url, .title), stored as ingested
KnownItems ==
    { [doi |-> <<"D", " ", "e">>, url |-> <<"X", " ">>, title |-> <<"E", " ", " ", "d">>],
      [doi |-> <<" ">>, url |-> NoneVal, title |-> <<" ">>] }

\* CandidateWork.identifier, .doi, .title
CandidatePool ==
    { [identifier |-> <<"y">>, doi |-> <<"e">>, title |-> <<"a", "b">>],
      [identifier |-> <<" ", "Y">>, doi |-> NoneVal, title |-> <<"a", "c">>],
      [identifier |-> <<"x">>, doi |-> <<"E", " ">>, title |-> <<"b", " ", "a">>],
      [identifier |-> <<"x", " ", "y">>, doi |-> NoneVal, title |-> <<"C", "b", " ">>],
      [identifier |-> <<"x", " ", " ", "y">>, doi |-> NoneVal, title |-> <<"e", "\t", "D">>],
      [identifier |-> <<"e">>, doi |-> <<" ">>, title |-> <<>>],
      [identifier |-> <<"d">>, doi |-> <<"y">>, title |-> <<"c", "b">>],
      [identifier |-> <<"c">>, doi |-> <<" ", "d", " ", "e">>, title |-> <<"c">>],
      [identifier |-> <<"b">>, doi |-> <<"d", " ", " ", "e">>, title |-> <<"b">>] }

\* the candidates of repeated calls on one engine: two that share an
\* identifier up to case and blanks, and one whose identifier is the URL of
\* a library item
CallPool ==
    { c \in CandidatePool : c.identifier \in { <<"y">>, <<" ", "Y">>, <<"x">> } }

\* title_threshold values: 0.5 and the default 0.9
Thresholds == { <<1, 2>>, <<9, 10>> }

SeqsUpTo(S, n) == UNION { [1..k -> S] : k \in 0..n }

Range(seq) == { seq[i] : i \in 1..Len(seq) }

\* the clock reading at the start; the dated candidates are one tick short of
\* 31, 61 and 181 days old then
StartTime == 500 * TicksPerDay

\* CandidateWork fields read by the ranker; published is None or
\* <<time in ticks, tzinfo>>, tzinfo "none" for a naive timestamp
RankPool ==
    { [source |-> <<"c", "r">>, identifier |-> <<"a">>, doi |-> NoneVal,
       title |-> <<"t", "1">>, authors |-> <<>>, published |-> NoneVal,
       venue |-> NoneVal, metrics |-> <<>>],
      [source |-> <<"c", "r">>, identifier |-> <<"b">>, doi |-> NoneVal,
       title |-> <<"t", "1">>, authors |-> <<<<"A", "b">>>>,
       published |-> <<StartTime - (31 * TicksPerDay - 1), "utc">>,
       venue |-> NoneVal, metrics |-> <<>>],
      [source |-> <<"a", "r", "X", "i", "v">>, identifier |-> <<"c">>, doi |-> NoneVal,
       title |-> <<"t", "2">>, authors |-> <<>>,
       published |-> <<StartTime - (61 * TicksPerDay - 1), "none">>,
       venue |-> <<" ", "X", "y">>, metrics |-> [cited_by |-> 1]],
      [source |-> <<"c", "r">>, identifier |-> <<"d">>, doi |-> <<"d", "1">>,
       title |-> <<"t", "3">>, authors |-> <<<<"c">>, <<"a", "B">>>>,
       published |-> <<StartTime - (181 * TicksPerDay - 1), "utc">>,
       venue |-> <<"e">>, metrics |-> [altmetric |-> 2]],
      [source |-> <<"c", "r">>, identifier |-> <<"e">>, doi |-> NoneVal,
       title |-> <<"t", "1">>, authors |-> <<<<"c">>>>, published |-> NoneVal,
       venue |-> NoneVal, metrics |-> <<>>],
      [source |-> <<"c", "r">>, identifier |-> <<"f">>, doi |-> NoneVal,
       title |-> <<"t", "4">>, authors |-> <<>>,
       published |-> <<StartTime + 5, "utc">>,
       venue |-> <<"x", "y">>, metrics |-> ("is-referenced-by" :> 3 @@ "altmetric" :> 1)] }

\* settings.scoring: weights in hundredths, thresholds in units of 1e-5,
\* decay_days the configured boundaries
SettingsPool ==
    { [weights |-> [similarity |-> 50, recency |-> 30, citations |-> 5, altmetric |-> 5,
                    author_bonus |-> 10, venue_bonus |-> 10],
       thresholds |-> [must_read |-> 80000, consider |-> 50000],
       decay_days |-> <<>>,
       whitelist_authors |-> {<<"a", "b">>},
       whitelist_venues |-> {<<"E">>}],
      [weights |-> [similarity |-> 100, recency |-> 0, citations |-> 0, altmetric |-> 0,
                    journal_quality |-> 0, author_bonus |-> 0, venue_bonus |-> 0],
       thresholds |-> [must_read |-> 80000, consider |-> 60000],
       decay_days |-> [fast |-> 60],
       whitelist_authors |-> {},
       whitelist_venues |-> {}],
      [weights |-> [similarity |-> 40, recency |-> 20, citations |-> 10, altmetric |-> 10,
                    journal_quality |-> 10, author_bonus |-> 5, venue_bonus |-> 5],
       thresholds |-> [must_read |-> 70000, consider |-> 70000],
       decay_days |-> [medium |-> 180, slow |-> 365],
       whitelist_authors |-> {<<"C">>},
       whitelist_venues |-> {<<"x", "Y">>}] }

\* data/journal_metrics.csv as _load_journal_metrics reads it: title -> sjr,
\* in thousandths
JournalMetricsPool ==
    { <<>>,
      (<<"x", "y">> :> 3000 @@ <<"e">> :> 500) }

\* the profile vectors of the loaded index (never empty), in thousandths
IndexPool ==
    { << <<1000, 0>> >>,
      << <<1000, 0>>, <<0, 1000>> >> }

\* texts handed to the vectorizer: title and authors
TextPool ==
    { <<<<"t", "0">>, <<>>>>, <<<<"t", "1">>, <<>>>>, <<<<"t", "2">>, <<>>>>,
      <<<<"t", "3">>, <<<<"c">>>>>>, <<<<"t", "4">>, <<>>>> }

\* unit vectors, in thousandths
UnitVectors == { <<1000, 0>>, <<0, 1000>>, <<800, 600>> }

\* arrays handed to FaissIndex.from_vectors: N x 2 arrays, N = 0 included,
\* and one-dimensional arrays
VectorArrays ==
    { [ndim |-> 2, rows |-> r] : r \in SeqsUpTo(UnitVectors, MaxVectors) }
    \cup { [ndim |-> 1, rows |-> <<v>>] : v \in UnitVectors }

\* data/faiss.index and data/profile.json: nothing written yet, or the
\* artifacts of an earlier profile build
NoArtifacts == [index_exists |-> FALSE, index |-> <<>>, profile_exists |-> FALSE]

ArtifactsPool ==
    { NoArtifacts,
      [index_exists |-> TRUE, index |-> << <<1000, 0>> >>, profile_exists |-> TRUE] }

\* ranked works as _limit_preprints reads them: two journal articles and
\* two preprints
QuotaPool ==
    { [source |-> <<"c", "r">>, identifier |-> <<"j", "1">>],
      [source |-> <<"C", "r">>, identifier |-> <<"j", "2">>],
      [source |-> <<"a", "r", "X", "i", "v">>, identifier |-> <<"p", "1">>],
      [source |-> <<"M", "E", "D", "R", "X", "I", "V">>, identifier |-> <<"p", "2">>] }

\* max_ratio: 0 (no cap), 0.3 as run_watch passes it, 0.5 and 1
RatioPool == { <<0, 1>>, <<3, 10>>, <<1, 2>>, <<1, 1>> }

\* --top: 0 (no cut), 2 and 4
TopPool == { 0, 2, 4 }

\* the candidates a watch cycle fetches: a journal article that matches the
\* profile, an arXiv preprint, an article exactly as old as the cutoff at
\* the start whose identifier is the URL of the library item, an article
\* whose timestamp has no timezone, and an article without a date
WatchPool ==
    { [source |-> <<"c", "r">>, identifier |-> <<"w", "5">>, doi |-> NoneVal,
       title |-> <<"t", "1">>, authors |-> <<>>,
       published |-> NoneVal,
       venue |-> <<"e">>, metrics |-> <<>>] } \cup
    { [source |-> <<"c", "r">>, identifier |-> <<"w", "1">>, doi |-> NoneVal,
       title |-> <<"t", "1">>, authors |-> <<>>,
       published |-> <<StartTime - TicksPerDay, "utc">>,
       venue |-> NoneVal, metrics |-> <<>>],
      [source |-> <<"a", "r", "X", "i", "v">>, identifier |-> <<"w", "2">>, doi |-> NoneVal,
       title |-> <<"t", "2">>, authors |-> <<>>,
       published |-> <<StartTime - 2 * TicksPerDay, "utc">>,
       venue |-> NoneVal, metrics |-> <<>>],
      [source |-> <<"c", "r">>, identifier |-> <<"x">>, doi |-> NoneVal,
       title |-> <<"t", "3">>, authors |-> <<>>,
       published |-> <<StartTime - 7 * TicksPerDay, "utc">>,
       venue |-> <<"e">>, metrics |-> <<>>],
      [source |-> <<"c", "r">>, identifier |-> <<"w", "4">>, doi |-> NoneVal,
       title |-> <<"t", "4">>, authors |-> <<>>,
       published |-> <<StartTime - TicksPerDay, "none">>,
       venue |-> NoneVal, metrics |-> <<>>] }

\* the items table after ingest: empty, or one item
WatchLibraries ==
    { <<>>,
      << [doi |-> <<"D", " ", "e">>, url |-> <<"X", " ">>, title |-> <<"E", " ", " ", "d">>] >> }

\* what a watch cycle finds: the artifacts of a profile build and the
\* sentence model installed, the same without the sentence model, no
\* artifacts, an index file without vectors, an index without profile summary
WatchEnvPool ==
    { [artifacts |-> a, available |-> TRUE] :
        a \in ArtifactsPool
              \cup { [index_exists |-> TRUE, index |-> <<>>, profile_exists |-> TRUE],
                     [index_exists |-> TRUE, index |-> << <<1000, 0>> >>,
                      profile_exists |-> FALSE] } }
    \cup { [artifacts |-> [index_exists |-> TRUE, index |-> << <<1000, 0>> >>,
                          profile_exists |-> TRUE],
            available |-> FALSE] }

\* --rss, --report, --push
ArgsPool ==
    { [rss |-> FALSE, report |-> FALSE, push |-> FALSE],
      [rss |-> TRUE, report |-> FALSE, push |-> TRUE],
      [rss |-> TRUE, report |-> TRUE, push |-> TRUE] }

\* --top: 0 (no cut) and 1
WatchTops == { 0, 1 }

\* settings.scoring of a watch cycle: the default thresholds, and a consider
\* threshold above the must_read threshold
WatchSettingsPool ==
    { [weights |-> [similarity |-> 50, recency |-> 30, citations |-> 5, altmetric |-> 5,
                    author_bonus |-> 10, venue_bonus |-> 10],
       thresholds |-> [must_read |-> 80000, consider |-> 50000],
       decay_days |-> <<>>,
       whitelist_authors |-> {},
       whitelist_venues |-> {}],
      [weights |-> [similarity |-> 50, recency |-> 30, citations |-> 5, altmetric |-> 5,
                    author_bonus |-> 10, venue_bonus |-> 10],
       thresholds |-> [must_read |-> 70000, consider |-> 90000],
       decay_days |-> <<>>,
       whitelist_authors |-> {},
       whitelist_venues |-> {}] }

\* ------------------------------------------------------------------ state
VARIABLES
    storage_items,   \* rows of the items table, in iter_items() order
    engine,          \* the DedupeEngine: title_threshold, existing_doi,
                     \* existing_ids, existing_titles
    source,          \* the argument of the last filter call
    deduped,         \* the list the last filter call returned
    previous,        \* the list the filter call before the last returned
    calls,           \* number of filter calls made on the engine
    ranker,          \* the WorkRanker: settings, journal_metrics, index
    clock,           \* the current time, in ticks
    candidates,      \* the argument of the last rank call
    now_read,        \* now_read[i]: the clock reading taken for candidates[i]
    scored,          \* the RankedWorks of the last rank call, before the sort
    ranked,          \* the list the last rank call returned
    rank_calls,      \* number of rank calls made on the ranker
    index_searches,  \* number of searches made on the ranker's index
    vectorizer,      \* the TextVectorizer: _model
    backend,         \* whether SentenceTransformer could be imported
    models_built,    \* number of SentenceTransformer models constructed
    vec_calls,       \* number of calls made on the vectorizer
    vec_last,        \* the last call on the vectorizer: op, error, texts, out
    disk,            \* data/faiss.index and data/profile.json
    embeddings,      \* the embedding column of the items table
    build_last,      \* the last index or profile build: op, error, n, index
    recent,          \* the list _filter_recent returned
    max_ratio,       \* the max_ratio handed to _limit_preprints
    top,             \* the top argument of run_watch
    limited,         \* the list _limit_preprints returned
    forwarded,       \* the list after the cut to the top works
    limit_calls,     \* number of _limit_preprints calls made
    args,            \* the rss, report and push arguments of run_watch
    watch            \* the run_watch call: called, error, and what was
                     \* handed to write_rss, render_html and ZoteroPusher.push

dedupeVars == <<storage_items, engine, source, deduped, previous, calls>>

rankVars == <<ranker, clock, candidates, now_read, scored, ranked, rank_calls,
              index_searches>>

vecVars == <<vectorizer, backend, models_built, vec_calls, vec_last>>

buildVars == <<disk, embeddings, build_last>>

quotaVars == <<recent, max_ratio, top, limited, forwarded, limit_calls>>

watchVars == <<args, watch>>

vars == <<dedupeVars, rankVars, vecVars, buildVars, quotaVars, watchVars>>

\* nothing handed to an output
NoOutput == [written |-> FALSE, name |-> "", works |-> <<>>]

\* run_watch not called
NoWatch ==
    [called |-> FALSE, error |-> "none", ranker_built |-> FALSE,
     feed |-> NoOutput, report |-> NoOutput, pushed |-> NoOutput]

WatchIdle ==
    /\ args = [rss |-> FALSE, report |-> FALSE, push |-> FALSE]
    /\ watch = NoWatch

\* no post-filter applied
QuotaIdle ==
    /\ recent = <<>>
    /\ max_ratio = <<3, 10>>
    /\ top = 0
    /\ limited = <<>>
    /\ forwarded = <<>>
    /\ limit_calls = 0

\* before any build
NoBuild == [op |-> "none", error |-> "none", n |-> 0, index |-> <<>>]

\* no profile build under way
BuildIdle ==
    /\ disk = [index_exists |-> TRUE, index |-> << <<1000, 0>> >>, profile_exists |-> TRUE]
    /\ embeddings = <<>>
    /\ build_last = NoBuild

\* before any call on the vectorizer
NoCall == [op |-> "none", error |-> "none", texts |-> <<>>, out |-> <<>>]

\* TextVectorizer() in a process where SentenceTransformer was imported
VecIdle ==
    /\ vectorizer = TextVectorizer
    /\ backend = TRUE
    /\ models_built = 0
    /\ vec_calls = 0
    /\ vec_last = NoCall

\* TextVectorizer(), the import of SentenceTransformer having succeeded or not
VecInit ==
    /\ vectorizer = TextVectorizer
    /\ backend \in BOOLEAN
    /\ models_built = 0
    /\ vec_calls = 0
    /\ vec_last = NoCall

DedupeInit ==
    /\ storage_items \in SeqsUpTo(KnownItems, MaxKnown)
    /\ \E threshold \in Thresholds : engine = DedupeEngine(storage_items, threshold)
    /\ source = <<>>
    /\ deduped = <<>>
    /\ previous = <<>>
    /\ calls = 0

\* WorkRanker.__init__ with a loadable index and profile
RankInit ==
    /\ \E settings \in SettingsPool, metrics \in JournalMetricsPool, index \in IndexPool :
          ranker = [settings |-> settings, journal_metrics |-> metrics, index |-> index]
    /\ clock = StartTime
    /\ candidates = <<>>
    /\ now_read = <<>>
    /\ scored = <<>>
    /\ ranked = <<>>
    /\ rank_calls = 0
    /\ index_searches = 0

\* dedupe.filter(candidates) on a fetched batch
FilterCall ==
    /\ calls = 0
    /\ \E batch \in SeqsUpTo(CandidatePool, MaxBatch) :
          /\ source' = batch
          /\ deduped' = Filter(engine, batch)
    /\ previous' = deduped
    /\ calls' = calls + 1
    /\ UNCHANGED <<storage_items, engine>>
    /\ UNCHANGED <<rankVars, vecVars, buildVars, quotaVars, watchVars>>

\* dedupe.filter applied to the list the previous call returned
FilterAgain ==
    /\ calls >= 1
    /\ calls < MaxCalls
    /\ source' = deduped
    /\ deduped' = Filter(engine, deduped)
    /\ previous' = deduped
    /\ calls' = calls + 1
    /\ UNCHANGED <<storage_items, engine>>
    /\ UNCHANGED <<rankVars, vecVars, buildVars, quotaVars, watchVars>>

\* one more call of dedupe.filter on the same engine, the first included,
\* with a batch that does not depend on what the calls before returned
FilterNext ==
    /\ calls < MaxCalls
    /\ \E batch \in SeqsUpTo(CallPool, MaxBatch) :
       \E r \in { FilterOn(engine, batch) } :
          /\ source' = batch
          /\ engine' = r.self
          /\ deduped' = r.deduped
    /\ previous' = deduped
    /\ calls' = calls + 1
    /\ UNCHANGED storage_items
    /\ UNCHANGED <<rankVars, vecVars, buildVars, quotaVars, watchVars>>

\* the clock readings of one rank call: one per candidate, never decreasing,
\* the clock advancing by at most MaxAdvance ticks during the call
ClockReadings(n) ==
    { r \in [1..n -> clock..(clock + MaxAdvance)] :
        \A i \in 1..(n - 1) : r[i] <= r[i + 1] }

\* the texts rank hands to the vectorizer
TextsOf(batch) == [i \in 1..Len(batch) |-> content_for_embedding(batch[i])]

\* what a rank call on batch does to the vectorizer and the index: nothing
\* for an empty batch, one encode and one search otherwise
RankEffects(batch) ==
    IF batch = <<>> THEN UNCHANGED <<vecVars, index_searches>>
    ELSE LET enc == EncodeCall(vectorizer, backend, models_built, TextsOf(batch)) IN
         /\ vectorizer' = enc.self
         /\ models_built' = enc.built
         /\ vec_calls' = vec_calls + 1
         /\ vec_last' = [op |-> "encode", error |-> enc.error,
                         texts |-> TextsOf(batch), out |-> enc.out]
         /\ index_searches' = index_searches + 1
         /\ UNCHANGED backend

\* ranker.rank(candidates), called once in a watch cycle, the sentence model
\* being installed
RankCall ==
    /\ rank_calls = 0
    /\ backend
    /\ \E batch \in SeqsUpTo(RankPool, MaxBatch) : \E nows \in ClockReadings(Len(batch)) :
          /\ candidates' = batch
          /\ now_read' = nows
          /\ scored' = IF batch = <<>> THEN <<>> ELSE ScoreAll(ranker, batch, nows)
          /\ ranked' = Rank(ranker, batch, nows)
          /\ clock' = IF batch = <<>> THEN clock ELSE nows[Len(batch)]
          /\ RankEffects(batch)
    /\ rank_calls' = rank_calls + 1
    /\ UNCHANGED ranker
    /\ UNCHANGED <<dedupeVars, buildVars, quotaVars, watchVars>>

\* the dedupe engine of a watch cycle
Init ==
    /\ DedupeInit
    /\ ranker = [settings |-> CHOOSE x \in SettingsPool : TRUE,
                 journal_metrics |-> <<>>,
                 index |-> CHOOSE x \in IndexPool : TRUE]
    /\ clock = StartTime
    /\ candidates = <<>>
    /\ now_read = <<>>
    /\ scored = <<>>
    /\ ranked = <<>>
    /\ rank_calls = 0
    /\ index_searches = 0
    /\ VecIdle
    /\ BuildIdle
    /\ QuotaIdle
    /\ WatchIdle

Next == FilterCall \/ FilterAgain

Spec == Init /\ [][Next]_vars

\* repeated independent calls on one engine
NextCalls == FilterNext

SpecCalls == Init /\ [][NextCalls]_vars

\* the ranker of a watch cycle
InitRank ==
    /\ RankInit
    /\ storage_items = <<>>
    /\ engine = DedupeEngine(<<>>, <<9, 10>>)
    /\ source = <<>>
    /\ deduped = <<>>
    /\ previous = <<>>
    /\ calls = 0
    /\ VecIdle
    /\ BuildIdle
    /\ QuotaIdle
    /\ WatchIdle

NextRank == RankCall

SpecRank == InitRank /\ [][NextRank]_vars

\* vectorizer.load()
Load ==
    /\ vec_calls < MaxVecCalls
    /\ LET r == load(vectorizer, backend, models_built) IN
       /\ vectorizer' = r.self
       /\ models_built' = r.built
       /\ vec_last' = [op |-> "load", error |-> r.error, texts |-> <<>>, out |-> <<>>]
    /\ vec_calls' = vec_calls + 1
    /\ UNCHANGED backend
    /\ UNCHANGED <<dedupeVars, rankVars, buildVars, quotaVars, watchVars>>

\* vectorizer.model
ModelProperty ==
    /\ vec_calls < MaxVecCalls
    /\ LET r == load(vectorizer, backend, models_built) IN
       /\ vectorizer' = r.self
       /\ models_built' = r.built
       /\ vec_last' = [op |-> "model", error |-> r.error, texts |-> <<>>,
                       out |-> IF r.error = "none" THEN r.self._model ELSE <<>>]
    /\ vec_calls' = vec_calls + 1
    /\ UNCHANGED backend
    /\ UNCHANGED <<dedupeVars, rankVars, buildVars, quotaVars, watchVars>>

\* vectorizer.encode(texts), texts not empty
Encode ==
    /\ vec_calls < MaxVecCalls
    /\ \E texts \in SeqsUpTo(TextPool, MaxTexts) \ {<<>>} :
         LET r == EncodeCall(vectorizer, backend, models_built, texts) IN
         /\ vectorizer' = r.self
         /\ models_built' = r.built
         /\ vec_last' = [op |-> "encode", error |-> r.error, texts |-> texts, out |-> r.out]
    /\ vec_calls' = vec_calls + 1
    /\ UNCHANGED backend
    /\ UNCHANGED <<dedupeVars, rankVars, buildVars, quotaVars, watchVars>>

\* vectorizer.encode_single(text): encode([text])[0]
EncodeSingle ==
    /\ vec_calls < MaxVecCalls
    /\ \E text \in TextPool :
         LET r == EncodeCall(vectorizer, backend, models_built, <<text>>) IN
         /\ vectorizer' = r.self
         /\ models_built' = r.built
         /\ vec_last' = [op |-> "encode_single", error |-> r.error, texts |-> <<text>>,
                         out |-> IF r.error = "none" THEN r.out[1] ELSE <<>>]
    /\ vec_calls' = vec_calls + 1
    /\ UNCHANGED backend
    /\ UNCHANGED <<dedupeVars, rankVars, buildVars, quotaVars, watchVars>>

\* a vectorizer on its own
InitVec ==
    /\ VecInit
    /\ storage_items = <<>>
    /\ engine = DedupeEngine(<<>>, <<9, 10>>)
    /\ source = <<>>
    /\ deduped = <<>>
    /\ previous = <<>>
    /\ calls = 0
    /\ ranker = [settings |-> CHOOSE x \in SettingsPool : TRUE,
                 journal_metrics |-> <<>>,
                 index |-> CHOOSE x \in IndexPool : TRUE]
    /\ clock = StartTime
    /\ candidates = <<>>
    /\ now_read = <<>>
    /\ scored = <<>>
    /\ ranked = <<>>
    /\ rank_calls = 0
    /\ index_searches = 0
    /\ BuildIdle
    /\ QuotaIdle
    /\ WatchIdle

NextVec == Load \/ ModelProperty \/ Encode \/ EncodeSingle

SpecVec == InitVec /\ [][NextVec]_vars

\* FaissIndex.from_vectors(vectors)
FromVectors ==
    /\ \E vectors \in VectorArrays :
         LET made == from_vectors(vectors) IN
         build_last' = [op |-> "from_vectors", error |-> made.error,
                        n |-> IF vectors.ndim = 2 THEN Len(vectors.rows) ELSE 0,
                        index |-> made.index]
    /\ UNCHANGED <<disk, embeddings>>
    /\ UNCHANGED <<dedupeVars, rankVars, vecVars, quotaVars, watchVars>>

\* ProfileBuilder(base_dir, storage, settings).run(), the builder having a
\* vectorizer of its own
BuildProfile ==
    /\ LET r == ProfileBuilder_run(storage_items, TextVectorizer, backend, models_built,
                                   disk, embeddings)
       IN /\ vectorizer' = r.vectorizer
          /\ models_built' = r.built
          /\ vec_calls' = IF r.encoded THEN vec_calls + 1 ELSE vec_calls
          /\ vec_last' = IF r.encoded
                         THEN [op |-> "encode", error |-> r.error,
                               texts |-> [i \in 1..Len(storage_items) |->
                                            item_content_for_embedding(storage_items[i])],
                               out |-> IF r.error = "none" THEN r.embeddings ELSE <<>>]
                         ELSE vec_last
          /\ disk' = r.artifacts
          /\ embeddings' = r.embeddings
          /\ build_last' = [op |-> "run", error |-> r.error, n |-> Len(storage_items),
                            index |-> IF r.error = "none" THEN r.artifacts.index ELSE <<>>]
    /\ vec_calls < MaxVecCalls
    /\ UNCHANGED backend
    /\ UNCHANGED <<dedupeVars, rankVars, quotaVars, watchVars>>

\* a profile build: the items table as ingested, the artifacts on disk
InitBuild ==
    /\ storage_items \in SeqsUpTo(KnownItems, MaxKnown)
    /\ engine = DedupeEngine(<<>>, <<9, 10>>)
    /\ source = <<>>
    /\ deduped = <<>>
    /\ previous = <<>>
    /\ calls = 0
    /\ ranker = [settings |-> CHOOSE x \in SettingsPool : TRUE,
                 journal_metrics |-> <<>>,
                 index |-> CHOOSE x \in IndexPool : TRUE]
    /\ clock = StartTime
    /\ candidates = <<>>
    /\ now_read = <<>>
    /\ scored = <<>>
    /\ ranked = <<>>
    /\ rank_calls = 0
    /\ index_searches = 0
    /\ VecInit
    /\ disk \in ArtifactsPool
    /\ embeddings = <<>>
    /\ build_last = NoBuild
    /\ QuotaIdle
    /\ WatchIdle

NextBuild == FromVectors \/ BuildProfile

SpecBuild == InitBuild /\ [][NextBuild]_vars

\* lines 94-97 of run_watch: _limit_preprints(ranked, max_ratio), then the
\* cut to the top works
LimitPreprints ==
    /\ limit_calls = 0
    /\ limited' = _limit_preprints(recent, max_ratio)
    /\ forwarded' = Truncate(_limit_preprints(recent, max_ratio), top)
    /\ limit_calls' = limit_calls + 1
    /\ UNCHANGED <<recent, max_ratio, top>>
    /\ UNCHANGED <<dedupeVars, rankVars, vecVars, buildVars, watchVars>>

\* the post-filters on their own: any ranked list, cap and cut
InitQuota ==
    /\ recent \in SeqsUpTo(QuotaPool, MaxRanked)
    /\ max_ratio \in RatioPool
    /\ top \in TopPool
    /\ limited = <<>>
    /\ forwarded = <<>>
    /\ limit_calls = 0
    /\ storage_items = <<>>
    /\ engine = DedupeEngine(<<>>, <<9, 10>>)
    /\ source = <<>>
    /\ deduped = <<>>
    /\ previous = <<>>
    /\ calls = 0
    /\ ranker = [settings |-> CHOOSE x \in SettingsPool : TRUE,
                 journal_metrics |-> <<>>,
                 index |-> CHOOSE x \in IndexPool : TRUE]
    /\ clock = StartTime
    /\ candidates = <<>>
    /\ now_read = <<>>
    /\ scored = <<>>
    /\ ranked = <<>>
    /\ rank_calls = 0
    /\ index_searches = 0
    /\ VecIdle
    /\ BuildIdle
    /\ WatchIdle

NextQuota == LimitPreprints

SpecQuota == InitQuota /\ [][NextQuota]_vars

\* data/journal_metrics.csv of a watch cycle
WatchJournalMetrics == (<<"x", "y">> :> 3000 @@ <<"e">> :> 500)

\* run_watch without the branch for an empty list: every output asked for
\* is produced from ranked, whatever it holds
WriteOutputs_unguarded(flags, final) ==
    [called |-> TRUE, error |-> "none", ranker_built |-> TRUE,
     feed |-> IF flags.rss
              THEN [written |-> TRUE, name |-> "feed.xml", works |-> final]
              ELSE NoOutput,
     report |-> IF flags.report
                THEN [written |-> TRUE, name |-> "report.html", works |-> final]
                ELSE NoOutput,
     pushed |-> IF flags.push
                THEN [written |-> TRUE, name |-> "zotero", works |-> final]
                ELSE NoOutput]

\* lines 99-117 of run_watch: with nothing to forward the empty feed and the
\* empty report are written and the function returns; otherwise the feed,
\* the dated report and the push to Zotero, each when asked for
WriteOutputs(flags, final) ==
    IF final = <<>>
    THEN [called |-> TRUE, error |-> "none", ranker_built |-> TRUE,
          feed |-> IF flags.rss
                   THEN [written |-> TRUE, name |-> "feed.xml", works |-> <<>>]
                   ELSE NoOutput,
          report |-> IF flags.report
                     THEN [written |-> TRUE, name |-> "report-empty.html", works |-> <<>>]
                     ELSE NoOutput,
          pushed |-> NoOutput]
    ELSE [called |-> TRUE, error |-> "none", ranker_built |-> TRUE,
          feed |-> IF flags.rss
                   THEN [written |-> TRUE, name |-> "feed.xml", works |-> final]
                   ELSE NoOutput,
          report |-> IF flags.report
                     THEN [written |-> TRUE,
                           name |-> IF final[1].published # NoneVal
                                    THEN "report-date.html"
                                    ELSE "report.html",
                           works |-> final]
                     ELSE NoOutput,
          pushed |-> IF flags.push
                     THEN [written |-> TRUE, name |-> "zotero", works |-> final]
                     ELSE NoOutput]

\* run_watch once the candidates are deduplicated (cli.py 90-117): the ranker
\* is built, filtered is ranked, the post-filters are applied and the outputs
\* the arguments ask for are written. readings are the clock readings of the
\* cycle, one per scored candidate and one in _filter_recent.
run_watch(settings, artifacts, available, built_before, flags, ratio, limit, filtered, readings) ==
    LET n == Len(filtered)
        built == WorkRanker(settings, artifacts, WatchJournalMetrics)
        self == [settings |-> settings,
                 journal_metrics |-> built.journal_metrics,
                 index |-> built.index]
        encoded == built.error = "none" /\ filtered # <<>>
        enc == IF encoded
               THEN EncodeCall(TextVectorizer, available, built_before, TextsOf(filtered))
               ELSE [self |-> TextVectorizer, built |-> built_before,
                     error |-> "none", out |-> <<>>]
        rank_error == IF built.error # "none" THEN built.error ELSE enc.error
        nows == IF rank_error = "none" THEN SubSeq(readings, 1, n) ELSE <<>>
        works == IF rank_error = "none" /\ filtered # <<>>
                 THEN ScoreAll(self, filtered, nows) ELSE <<>>
        result == IF works = <<>> THEN <<>> ELSE SortByScore(works)
        kept == IF rank_error = "none"
                THEN _filter_recent(result, 7, readings[n + 1])
                ELSE [error |-> rank_error, kept |-> <<>>]
        capped == IF kept.error = "none" THEN _limit_preprints(kept.kept, ratio) ELSE <<>>
        final == Truncate(capped, limit)
        outputs == IF kept.error # "none"
                   THEN [NoWatch EXCEPT !.called = TRUE, !.error = kept.error,
                                        !.ranker_built = (built.error = "none")]
                   ELSE WriteOutputs(flags, final)
    IN [ranker_error |-> built.error,
        self |-> self,
        encoded |-> encoded,
        enc |-> enc,
        rank_error |-> rank_error,
        nows |-> nows,
        scored |-> works,
        ranked |-> result,
        post_error |-> kept.error,
        recent |-> kept.kept,
        limited |-> capped,
        forwarded |-> final,
        watch |-> outputs]

\* run_watch(base_dir, settings, storage, rss, report, top, push): batch is
\* what fetch_all returns. The clock is read only when candidates are scored
\* and in _filter_recent, so a cycle that fails before has no reading.
RunWatch ==
    /\ ~watch.called
    /\ \E batch \in SeqsUpTo(WatchPool, MaxBatch) :
       \E filtered \in { Filter(DedupeEngine(storage_items, <<9, 10>>), batch) } :
       \E readings \in ClockReadings(Len(filtered) + 1) :
       \E r \in { run_watch(ranker.settings, disk, backend, models_built, args,
                            max_ratio, top, filtered, readings) } :
         /\ r.rank_error # "none" => readings = [i \in 1..(Len(filtered) + 1) |-> clock]
         /\ source' = batch
         /\ engine' = DedupeEngine(storage_items, <<9, 10>>)
         /\ deduped' = filtered
         /\ previous' = deduped
         /\ calls' = calls + 1
         /\ ranker' = IF r.ranker_error = "none" THEN r.self ELSE ranker
         /\ vectorizer' = r.enc.self
         /\ models_built' = r.enc.built
         /\ vec_calls' = IF r.encoded THEN vec_calls + 1 ELSE vec_calls
         /\ vec_last' = IF r.encoded
                        THEN [op |-> "encode", error |-> r.enc.error,
                              texts |-> TextsOf(filtered), out |-> r.enc.out]
                        ELSE vec_last
         /\ index_searches' = IF r.encoded /\ r.enc.error = "none"
                              THEN index_searches + 1 ELSE index_searches
         /\ rank_calls' = IF r.ranker_error = "none" THEN rank_calls + 1 ELSE rank_calls
         /\ candidates' = IF r.ranker_error = "none" THEN filtered ELSE <<>>
         /\ now_read' = r.nows
         /\ scored' = r.scored
         /\ ranked' = r.ranked
         /\ clock' = readings[Len(filtered) + 1]
         /\ recent' = r.recent
         /\ limited' = r.limited
         /\ forwarded' = r.forwarded
         /\ limit_calls' = IF r.post_error = "none" THEN limit_calls + 1 ELSE limit_calls
         /\ watch' = r.watch
    /\ UNCHANGED <<storage_items, backend, max_ratio, top, args>>
    /\ UNCHANGED buildVars

\* a watch cycle: the library as ingested, the artifacts on disk, the
\* arguments and settings of the call; no ranker is built yet
InitWatch ==
    /\ storage_items \in WatchLibraries
    /\ engine = DedupeEngine(<<>>, <<9, 10>>)
    /\ source = <<>>
    /\ deduped = <<>>
    /\ previous = <<>>
    /\ calls = 0
    /\ \E settings \in WatchSettingsPool :
         ranker = [settings |-> settings, journal_metrics |-> <<>>, index |-> <<>>]
    /\ clock = StartTime
    /\ candidates = <<>>
    /\ now_read = <<>>
    /\ scored = <<>>
    /\ ranked = <<>>
    /\ rank_calls = 0
    /\ index_searches = 0
    /\ vectorizer = TextVectorizer
    /\ models_built = 0
    /\ vec_calls = 0
    /\ vec_last = NoCall
    /\ \E env \in WatchEnvPool :
         /\ disk = env.artifacts
         /\ backend = env.available
    /\ embeddings = <<>>
    /\ build_last = NoBuild
    /\ recent = <<>>
    /\ max_ratio = <<3, 10>>
    /\ top \in WatchTops
    /\ limited = <<>>
    /\ forwarded = <<>>
    /\ limit_calls = 0
    /\ args \in ArgsPool
    /\ watch = NoWatch

NextWatch == RunWatch

SpecWatch == InitWatch /\ [][NextWatch]_vars

\* ===================================================== properties: dedupe
\* what filter has accepted once the first k works of the batch are processed
Returned(k) == Filter(engine, SubSeq(source, 1, k))

AcceptedAt(j) == Len(Returned(j)) = Len(Returned(j - 1)) + 1

\* a DOI is present when it is not None and not blank
HasDoi(r) == r.doi # NoneVal /\ StrStrip(r.doi) # <<>>

HasUrl(r) == r.url # NoneVal /\ r.url # <<>>

KnownDois == { _normalize_identifier(item.doi) :
                 item \in { r \in Range(storage_items) : HasDoi(r) } }

KnownIds == { _normalize_identifier(item.url) :
                 item \in { r \in Range(storage_items) : HasUrl(r) } }

KnownTitles == { _normalize_title(item.title) : item \in Range(storage_items) }

Similar(t1, t2) ==
    FracGE(token_set_ratio(_normalize_title(t1), _normalize_title(t2)),
           engine.title_threshold)

\* the sequence of words of s, lower-cased
RECURSIVE Words(_)
Words(s) ==
    LET t == LStrip(s) IN
    IF t = <<>> THEN <<>>
    ELSE LET w == FirstWord(t) IN
         <<StrLower(w)>> \o Words(SubSeq(t, Len(w) + 1, Len(t)))

\* s and t differ only in letter case and in whitespace (leading, trailing,
\* or the length and kind of whitespace runs)
SameUpToCaseAndWhitespace(s, t) == Words(s) = Words(t)

\* s and t differ only in letter case and in leading or trailing whitespace
SameUpToCaseAndOuterWhitespace(s, t) ==
    LET a == StrStrip(s)
        b == StrStrip(t)
    IN /\ Len(a) = Len(b)
       /\ \A i \in 1..Len(a) : Lower(a[i]) = Lower(b[i])

Blank(s) == StrStrip(s) = <<>>

\* C1: the list filter returns is duplicate-free: no returned candidate has
\* a (non-blank) normalized DOI equal to a known DOI or to the DOI of a
\* candidate returned earlier, none has a normalized identifier equal to a
\* known identifier/URL or to that of a candidate returned earlier, and none
\* has a title whose token-set similarity is >= the threshold against a
\* known title or the title of a candidate returned earlier.
C1_OutputDuplicateFree ==
    calls >= 1 =>
      \A j \in 1..Len(deduped) :
        LET w == deduped[j] IN
        /\ HasDoi(w) =>
             /\ _normalize_identifier(w.doi) \notin KnownDois
             /\ \A i \in 1..(j - 1) :
                  HasDoi(deduped[i]) =>
                    _normalize_identifier(deduped[i].doi) # _normalize_identifier(w.doi)
        /\ _normalize_identifier(w.identifier) \notin KnownIds
        /\ \A i \in 1..(j - 1) :
             _normalize_identifier(deduped[i].identifier)
               # _normalize_identifier(w.identifier)
        /\ \A item \in Range(storage_items) : ~Similar(w.title, item.title)
        /\ \A i \in 1..(j - 1) : ~Similar(w.title, deduped[i].title)

\* a batch from which a known-DOI duplicate was removed, and a candidate whose
\* only match is a title similarity exactly at the threshold with the
\* candidate accepted before it
C1_Witness ==
    /\ calls = 1
    /\ Len(source) = 3
    /\ Len(deduped) = 1
    /\ \E j \in 1..3 :
         /\ ~AcceptedAt(j)
         /\ HasDoi(source[j])
         /\ _normalize_identifier(source[j].doi) \in KnownDois
    /\ \E j \in 2..3 :
         /\ ~AcceptedAt(j)
         /\ AcceptedAt(1)
         /\ ~HasDoi(source[j])
         /\ _normalize_identifier(source[j].identifier) \notin
               KnownIds \cup {_normalize_identifier(deduped[1].identifier)}
         /\ LET r == token_set_ratio(_normalize_title(source[j].title),
                                     _normalize_title(deduped[1].title))
            IN r[1] * engine.title_threshold[2] = engine.title_threshold[1] * r[2]

\* C2 (as claimed): filter rejects a candidate only for one of the three
\* stated reasons: a candidate whose DOI equals no known DOI and no DOI
\* accepted earlier, whose identifier equals no known identifier and no
\* identifier accepted earlier, and whose title is below the threshold
\* against every known and every earlier-accepted title, is accepted.
C2_RejectsOnlyForStatedReasons ==
    calls >= 1 =>
      \A j \in 1..Len(source) :
        LET w == source[j]
            earlier == Range(Returned(j - 1))
        IN
        ( /\ HasDoi(w) =>
               /\ _normalize_identifier(w.doi) \notin KnownDois
               /\ \A e \in earlier :
                    HasDoi(e) =>
                      _normalize_identifier(e.doi) # _normalize_identifier(w.doi)
          /\ _normalize_identifier(w.identifier) \notin KnownIds
          /\ \A e \in earlier :
               _normalize_identifier(e.identifier) # _normalize_identifier(w.identifier)
          /\ \A item \in Range(storage_items) : ~Similar(w.title, item.title)
          /\ \A e \in earlier : ~Similar(w.title, e.title) )
        => AcceptedAt(j)

\* C3: filter returns a subsequence of its input: every returned candidate
\* is an input candidate, none is returned more often than it occurs in the
\* input, and the survivors keep their relative input order.
RECURSIVE IsSubsequence(_, _)
IsSubsequence(sub, seq) ==
    IF sub = <<>> THEN TRUE
    ELSE IF seq = <<>> THEN FALSE
    ELSE IF Head(sub) = Head(seq) THEN IsSubsequence(Tail(sub), Tail(seq))
    ELSE IsSubsequence(sub, Tail(seq))

C3_OutputIsSubsequence ==
    calls >= 1 => IsSubsequence(deduped, source)

\* two distinct survivors around a rejected candidate
C3_Witness ==
    /\ calls = 1
    /\ Len(source) = 3
    /\ Len(deduped) = 2
    /\ deduped[1] # deduped[2]
    /\ ~AcceptedAt(2)

\* C4: dedupe is idempotent: filtering the list a filter call returned, on
\* the same engine, returns that list unchanged, element for element.
C4_FilterIdempotent ==
    calls >= 2 => deduped = source

C4_Witness ==
    /\ calls = 2
    /\ Len(source) >= 2
    /\ deduped = source
    /\ storage_items # <<>>

\* C5 (as claimed): two titles that differ only in letter case and in
\* whitespace are treated as identical: if one is the title of a known item
\* or of a candidate accepted earlier in the batch, a candidate carrying the
\* other is rejected.
C5_CaseWhitespaceTitlesCollide ==
    calls >= 1 =>
      \A j \in 1..Len(source) :
        ( \/ \E item \in Range(storage_items) :
               SameUpToCaseAndWhitespace(source[j].title, item.title)
          \/ \E e \in Range(Returned(j - 1)) :
               SameUpToCaseAndWhitespace(source[j].title, e.title) )
        => ~AcceptedAt(j)

\* C5 (amended): as claimed, for titles that are not blank (that contain at
\* least one non-whitespace character); the corpus and the batch path use
\* the same normalization.
C5_NonBlankCaseWhitespaceTitlesCollide ==
    calls >= 1 =>
      \A j \in 1..Len(source) :
        ( /\ ~Blank(source[j].title)
          /\ \/ \E item \in Range(storage_items) :
                  SameUpToCaseAndWhitespace(source[j].title, item.title)
             \/ \E e \in Range(Returned(j - 1)) :
                  SameUpToCaseAndWhitespace(source[j].title, e.title) )
        => ~AcceptedAt(j)

\* one candidate rejected only because of a known title written differently,
\* another only because of an earlier-accepted title written differently
C5_Witness ==
    /\ calls = 1
    /\ Len(source) = 3
    /\ Len(deduped) = 1
    /\ \E j \in 2..3 :
         /\ source[j].title # deduped[1].title
         /\ SameUpToCaseAndWhitespace(source[j].title, deduped[1].title)
         /\ _normalize_identifier(source[j].identifier) \notin
               KnownIds \cup {_normalize_identifier(deduped[1].identifier)}
         /\ ~HasDoi(source[j])
    /\ \E j \in 1..3 : \E item \in Range(storage_items) :
         /\ ~Blank(item.title)
         /\ source[j].title # item.title
         /\ SameUpToCaseAndWhitespace(source[j].title, item.title)
         /\ ~HasDoi(source[j])
         /\ _normalize_identifier(source[j].identifier) \notin KnownIds

\* C6 (as claimed): identifier and DOI comparisons are case-insensitive and
\* whitespace-collapsed: a candidate whose DOI or identifier differs from a
\* known or earlier-accepted one only in letter case or in whitespace,
\* whitespace inside the value included, is rejected.
C6_IdentifiersWhitespaceCollapsed ==
    calls >= 1 =>
      \A j \in 1..Len(source) :
        LET w == source[j]
            earlier == Range(Returned(j - 1))
        IN
        ( \/ /\ HasDoi(w)
             /\ \/ \E item \in Range(storage_items) :
                     HasDoi(item) /\ SameUpToCaseAndWhitespace(w.doi, item.doi)
                \/ \E e \in earlier :
                     HasDoi(e) /\ SameUpToCaseAndWhitespace(w.doi, e.doi)
          \/ \E item \in Range(storage_items) :
               HasUrl(item) /\ SameUpToCaseAndWhitespace(w.identifier, item.url)
          \/ \E e \in earlier :
               SameUpToCaseAndWhitespace(w.identifier, e.identifier) )
        => ~AcceptedAt(j)

\* C6 (amended): identifier and DOI comparisons are case-insensitive and
\* ignore leading and trailing whitespace, whitespace inside the value being
\* compared as it is: a candidate whose non-blank DOI or whose identifier
\* differs from a known or earlier-accepted one only in letter case or in
\* surrounding whitespace is rejected.
C6_IdentifiersCaseInsensitiveTrimmed ==
    calls >= 1 =>
      \A j \in 1..Len(source) :
        LET w == source[j]
            earlier == Range(Returned(j - 1))
        IN
        ( \/ /\ HasDoi(w)
             /\ \/ \E item \in Range(storage_items) :
                     HasDoi(item) /\ SameUpToCaseAndOuterWhitespace(w.doi, item.doi)
                \/ \E e \in earlier :
                     HasDoi(e) /\ SameUpToCaseAndOuterWhitespace(w.doi, e.doi)
          \/ \E item \in Range(storage_items) :
               HasUrl(item) /\ SameUpToCaseAndOuterWhitespace(w.identifier, item.url)
          \/ \E e \in earlier :
               SameUpToCaseAndOuterWhitespace(w.identifier, e.identifier) )
        => ~AcceptedAt(j)

\* a DOI written differently from a known one, and an identifier and a DOI
\* written differently from those of the candidate accepted before them
C6_Witness ==
    /\ calls = 1
    /\ Len(source) = 3
    /\ \E j \in 1..3 : \E item \in Range(storage_items) :
         /\ HasDoi(source[j]) /\ HasDoi(item)
         /\ source[j].doi # item.doi
         /\ SameUpToCaseAndOuterWhitespace(source[j].doi, item.doi)
         /\ ~AcceptedAt(j)
    /\ \E i \in 1..2 : \E j \in (i + 1)..3 :
         /\ AcceptedAt(i)
         /\ source[j].identifier # source[i].identifier
         /\ SameUpToCaseAndOuterWhitespace(source[j].identifier, source[i].identifier)
         /\ ~HasDoi(source[j])
         /\ ~Similar(source[j].title, source[i].title)
         /\ ~AcceptedAt(j)

\* ===================================================== properties: ranker
\* the CandidateWork a RankedWork was made from
CandidateOf(w) ==
    [f \in {"source", "identifier", "doi", "title", "authors", "published", "venue",
            "metrics"} |-> w[f]]

\* C7: rank returns its RankedWorks sorted by non-increasing score, and the
\* sort is stable: two candidates with equal score appear in the output in
\* the same relative order as in the input.
C7_SortedDescendingStable ==
    rank_calls >= 1 =>
      /\ Len(ranked) = Len(candidates)
      /\ \E p \in Permutations(1..Len(candidates)) :
           /\ \A k \in 1..Len(ranked) :
                /\ CandidateOf(ranked[k]) = candidates[p[k]]
                /\ ranked[k] = scored[p[k]]
           /\ \A k \in 1..Len(ranked) : \A l \in (k + 1)..Len(ranked) :
                /\ ranked[k].score >= ranked[l].score
                /\ ranked[k].score = ranked[l].score => p[k] < p[l]

\* three different candidates, the lowest score first in the input and the
\* two others tied
C7_Witness ==
    /\ rank_calls = 1
    /\ Len(candidates) = 3
    /\ scored[1].score < scored[2].score
    /\ scored[2].score = scored[3].score
    /\ candidates[2] # candidates[3]
    /\ ranked = <<scored[2], scored[3], scored[1]>>

\* C8 (as claimed): rank produces one RankedWork per input candidate, and
\* each candidate's score and label depend only on that candidate and the
\* static configuration, not on its position or on the other candidates:
\* equal candidates get equal scores and labels wherever they stand.
C8_ScoreDependsOnCandidateOnly ==
    rank_calls >= 1 =>
      /\ Len(ranked) = Len(candidates)
      /\ \A i \in 1..Len(candidates) : \A j \in 1..Len(candidates) :
           candidates[i] = candidates[j] =>
             /\ scored[i].score = scored[j].score
             /\ scored[i].label = scored[j].label

\* C9: every RankedWork's label is determined by its score and the two
\* thresholds alone: must_read if score >= must-read threshold, otherwise
\* consider if score >= consider threshold, otherwise ignore; both
\* boundaries are inclusive.
C9_LabelFromScore ==
    rank_calls >= 1 =>
      \A k \in 1..Len(ranked) :
        LET w == ranked[k]
            thresholds == ranker.settings.thresholds
        IN /\ w.score >= thresholds.must_read => w.label = "must_read"
           /\ (w.score < thresholds.must_read /\ w.score >= thresholds.consider)
                => w.label = "consider"
           /\ (w.score < thresholds.must_read /\ w.score < thresholds.consider)
                => w.label = "ignore"

\* must_read = 0.8 and consider = 0.5: 0.81 is must_read, exactly 0.5 is
\* consider, a score below 0.5 is ignore
C9_Witness ==
    /\ rank_calls = 1
    /\ ranker.settings.thresholds = [must_read |-> 80000, consider |-> 50000]
    /\ Len(ranked) = 3
    /\ ranked[1].score = 81000 /\ ranked[1].label = "must_read"
    /\ ranked[2].score = 50000 /\ ranked[2].label = "consider"
    /\ ranked[3].score < 50000 /\ ranked[3].label = "ignore"

\* C10: the recency component is 0 when the candidate has no publication
\* date; otherwise, with d the age in whole days, it is 1.0 if d <= fast,
\* else 0.7 if d <= medium, else 0.4 if d <= slow, else 0.1, the boundaries
\* being 30/60/180 when not configured.
C10_RecencyStaircase ==
    rank_calls >= 1 =>
      \A i \in 1..Len(candidates) :
        LET published == candidates[i].published
            decay == ranker.settings.decay_days
            fast == IF "fast" \in DOMAIN decay THEN decay["fast"] ELSE 30
            medium == IF "medium" \in DOMAIN decay THEN decay["medium"] ELSE 60
            slow == IF "slow" \in DOMAIN decay THEN decay["slow"] ELSE 180
        IN IF published = NoneVal THEN scored[i].recency_score = 0
           ELSE LET d == (now_read[i] - published[1]) \div TicksPerDay IN
                scored[i].recency_score =
                   IF d <= fast THEN 1000
                   ELSE IF d <= medium THEN 700
                   ELSE IF d <= slow THEN 400
                   ELSE 100

\* default boundaries: a work scored when its age is 30 whole days gets 1.0,
\* one scored when its age is 31 whole days gets 0.7, one without date gets 0
C10_Witness ==
    /\ rank_calls = 1
    /\ ranker.settings.decay_days = <<>>
    /\ \E i, j, k \in 1..Len(candidates) :
         /\ candidates[i].published # NoneVal
         /\ (now_read[i] - candidates[i].published[1]) \div TicksPerDay = 30
         /\ scored[i].recency_score = 1000
         /\ candidates[j].published # NoneVal
         /\ (now_read[j] - candidates[j].published[1]) \div TicksPerDay = 31
         /\ scored[j].recency_score = 700
         /\ candidates[k].published = NoneVal
         /\ scored[k].recency_score = 0

\* the altmetric component of a candidate: log(1 + altmetric), 0 without one
AltmetricOf(c) ==
    IF "altmetric" \in DOMAIN c.metrics /\ c.metrics["altmetric"] # 0
    THEN Log1pCount(c.metrics["altmetric"]) ELSE 0

\* the configured weight of journal quality, 0 when none is configured
QualityWeight ==
    IF "journal_quality" \in DOMAIN ranker.settings.weights
    THEN ranker.settings.weights["journal_quality"] ELSE 0

\* C11: the composite score of every RankedWork equals the weighted sum
\* similarity*w_similarity + recency*w_recency + citation*w_citations
\* + altmetric*w_altmetric + journal_quality*w_journal_quality
\* + author_bonus*w_author_bonus + venue_bonus*w_venue_bonus; when the
\* journal_quality weight is absent or zero, the score is the sum of the six
\* other terms and is the same under every journal quality table.
C11_ScoreIsWeightedSum ==
    rank_calls >= 1 =>
      \A i \in 1..Len(candidates) :
        LET w == scored[i]
            weights == ranker.settings.weights
            others == w.similarity * weights.similarity
                      + w.recency_score * weights.recency
                      + w.metric_score * weights.citations
                      + AltmetricOf(candidates[i]) * weights.altmetric
                      + w.author_bonus * weights.author_bonus
                      + w.venue_bonus * weights.venue_bonus
        IN /\ w.score = others + w.journal_quality * QualityWeight
           /\ QualityWeight = 0 =>
                /\ w.score = others
                /\ \A table \in JournalMetricsPool :
                     ScoreOne([ranker EXCEPT !.journal_metrics = table],
                              candidates[i], now_read[i]).score = w.score

\* no journal_quality weight configured: a work whose venue has quality
\* log(1 + 3.0) and whose similarity, recency, citation and altmetric
\* components are all positive, and a work with both bonuses
C11_Witness ==
    /\ rank_calls = 1
    /\ "journal_quality" \notin DOMAIN ranker.settings.weights
    /\ \E i, j \in 1..Len(candidates) :
         /\ scored[i].journal_quality = 1386
         /\ scored[i].similarity > 0
         /\ scored[i].recency_score > 0
         /\ scored[i].metric_score > 0
         /\ AltmetricOf(candidates[i]) > 0
         /\ scored[i].score > 0
         /\ scored[j].author_bonus = 1000
         /\ scored[j].venue_bonus = 1000

\* the keys of the quality table that the venue equals up to letter case and
\* surrounding whitespace
TableKeysOf(venue) ==
    IF venue = NoneVal THEN {}
    ELSE { key \in DOMAIN ranker.journal_metrics :
             SameUpToCaseAndOuterWhitespace(venue, key) }

C16_LazyIdempotentLoad ==
    /\ (vectorizer._model = NoneVal /\ models_built = 0)
    /\ [][ vec_calls' # vec_calls =>
             /\ models_built' \in {models_built, models_built + 1}
             /\ models_built' # models_built =>
                  /\ vectorizer._model = NoneVal
                  /\ models_built = 0
                  /\ vectorizer'._model = <<"model", 1>>
             /\ (vectorizer._model = NoneVal /\ backend) =>
                  /\ models_built' = 1
                  /\ vectorizer'._model = <<"model", 1>>
                  /\ vec_last'.error = "none"
             /\ vectorizer._model # NoneVal =>
                  /\ vectorizer'._model = vectorizer._model
                  /\ models_built' = models_built
                  /\ vec_last'.error = "none"
             /\ ~backend =>
                  /\ vec_last'.error = "RuntimeError"
                  /\ vectorizer'._model = NoneVal
                  /\ models_built' = 0
          ]_vars

\* three calls made, the last an encode of two texts, one model constructed
C16_Witness ==
    /\ vec_calls = 3
    /\ vec_last.op = "encode"
    /\ Len(vec_last.texts) = 2
    /\ vec_last.error = "none"
    /\ models_built = 1
    /\ vectorizer._model = <<"model", 1>>

\* the Euclidean norm of v, in thousandths, is 1 within 1e-5
UnitWithinTolerance(v) ==
    LET squared == v[1] * v[1] + v[2] * v[2] IN
    /\ squared >= 1000000 - 20
    /\ squared <= 1000000 + 20

\* C17 (as claimed): every vector returned by TextVectorizer.encode has
\* Euclidean norm 1 within tolerance 1e-5, for every input text and every
\* raw embedding the model returns.
C17_EncodedVectorsUnit ==
    (vec_last.op = "encode" /\ vec_last.error = "none") =>
      \A i \in 1..Len(vec_last.out) : UnitWithinTolerance(vec_last.out[i])

\* ============================================== properties: profile build
\* C14 (as claimed): building a Similarity Index from zero vectors fails
\* with an explicit error: FaissIndex.from_vectors given N = 0 vectors never
\* returns an index, and a profile build over an empty known-item set raises
\* before any index or profile summary is written and before any embedding
\* is stored.
C14_EmptyBuildFails ==
    /\ [](build_last.op = "from_vectors" /\ build_last.n = 0
            => build_last.error # "none")
    /\ [][ (build_last'.op = "run" /\ storage_items = <<>>) =>
             /\ build_last'.error # "none"
             /\ disk' = disk
             /\ embeddings' = embeddings ]_vars

\* ================================================ properties: post-filters
IsPreprint(work) ==
    \E name \in PreprintSources :
      /\ Len(work.source) = Len(name)
      /\ \A i \in 1..Len(name) : Lower(work.source[i]) = name[i]

\* number of preprints among the first k works
PreprintsIn(works, k) == Cardinality({ i \in 1..k : IsPreprint(works[i]) })

\* C18: in the list _limit_preprints returns for max_ratio > 0, the share of
\* preprints (source arxiv, biorxiv or medrxiv, whatever the letter case) in
\* every prefix is <= max_ratio, no work that is not a preprint is dropped,
\* and the order of the input is kept; the list left after the cut to the
\* top works keeps the cap on every prefix, so it has at most 30% preprints
\* when max_ratio is 0.3.
C18_PreprintQuotaOnEveryPrefix ==
    (limit_calls >= 1 /\ max_ratio[1] > 0) =>
      /\ \A k \in 1..Len(limited) :
           PreprintsIn(limited, k) * max_ratio[2] <= max_ratio[1] * k
      /\ IsSubsequence(limited, recent)
      /\ SelectSeq(limited, LAMBDA w : ~IsPreprint(w))
           = SelectSeq(recent, LAMBDA w : ~IsPreprint(w))
      /\ \A k \in 1..Len(forwarded) :
           PreprintsIn(forwarded, k) * max_ratio[2] <= max_ratio[1] * k
      /\ (max_ratio = <<3, 10>> /\ forwarded # <<>>) =>
           PreprintsIn(forwarded, Len(forwarded)) * 10 <= 3 * Len(forwarded)

\* max_ratio 0.3 and top 4: of five works, two of them preprints, the first
\* preprint is dropped and the second, in fourth place, is kept and forwarded
C18_Witness ==
    /\ limit_calls = 1
    /\ max_ratio = <<3, 10>>
    /\ top = 4
    /\ Len(recent) = 5
    /\ IsPreprint(recent[1])
    /\ Len(limited) = 4
    /\ IsPreprint(limited[4])
    /\ forwarded = limited

\* ================================================= properties: watch cycle
\* C13: a watch cycle never ranks against an empty or missing profile: if
\* the persisted index holds no vector, or the index or the profile summary
\* is missing, constructing the ranker fails and run_watch aborts with that
\* error before any candidate is scored and before any feed, report or push
\* output is produced.
C13_NoRankingWithoutProfile ==
    (watch.called /\ (~disk.index_exists \/ disk.index = <<>> \/ ~disk.profile_exists)) =>
      /\ watch.error # "none"
      /\ ~watch.ranker_built
      /\ rank_calls = 0 /\ scored = <<>> /\ ranked = <<>>
      /\ vec_calls = 0 /\ index_searches = 0
      /\ ~watch.feed.written /\ ~watch.report.written /\ ~watch.pushed.written

\* an index file without vectors, candidates that survive dedupe, every
\* output requested: the cycle ends with the ValueError of FaissIndex.load
C13_Witness ==
    /\ watch.called
    /\ disk.index_exists /\ disk.index = <<>> /\ disk.profile_exists
    /\ Len(deduped) >= 2
    /\ args = [rss |-> TRUE, report |-> TRUE, push |-> TRUE]
    /\ watch.error = "ValueError"
    /\ scored = <<>>
    /\ ~watch.feed.written

\* C15: a cycle with zero survivors is a valid outcome. When the ranker was
\* built and no candidate survived dedupe, rank returns [] without a call of
\* the vectorizer and without a search of the index, and the cycle ends
\* without error, even where the sentence model is not installed. A cycle
\* that ends without error and with nothing to forward writes the empty feed
\* as feed.xml when --rss is given, the empty report as report-empty.html
\* when --report is given, and pushes nothing.
C15_ZeroSurvivorsIsValid ==
    /\ (watch.called /\ watch.ranker_built /\ candidates = <<>>) =>
         /\ ranked = <<>>
         /\ vec_calls = 0 /\ models_built = 0 /\ vectorizer._model = NoneVal
         /\ index_searches = 0
         /\ watch.error = "none"
         /\ forwarded = <<>>
    /\ (watch.called /\ watch.error = "none" /\ forwarded = <<>>) =>
         /\ watch.feed = IF args.rss
                         THEN [written |-> TRUE, name |-> "feed.xml", works |-> <<>>]
                         ELSE NoOutput
         /\ watch.report = IF args.report
                           THEN [written |-> TRUE, name |-> "report-empty.html",
                                 works |-> <<>>]
                           ELSE NoOutput
         /\ ~watch.pushed.written

\* every fetched candidate is already in the library, the sentence model is
\* not installed and every output is asked for: the cycle writes the empty
\* feed and the empty report
C15_Witness ==
    /\ watch.called
    /\ source # <<>> /\ deduped = <<>>
    /\ ~backend
    /\ args = [rss |-> TRUE, report |-> TRUE, push |-> TRUE]
    /\ watch.error = "none"
    /\ watch.feed.written /\ watch.feed.works = <<>>
    /\ watch.report.written /\ watch.report.name = "report-empty.html"
    /\ ~watch.pushed.written

\* must_read above consider above ignore
LabelRank(label) ==
    CASE label = "must_read" -> 2
      [] label = "consider" -> 1
      [] OTHER -> 0

\* C19: the list run_watch forwards to feed, report and push is a
\* subsequence of what rank returned, holds at most top works when top > 0,
\* is sorted by non-increasing score, and its labels never rise, whatever
\* the two thresholds are; each output that is written holds that list.
C19_ForwardedIsOrderedCut ==
    watch.called =>
      /\ IsSubsequence(forwarded, ranked)
      /\ top > 0 => Len(forwarded) <= top
      /\ \A i \in 1..Len(forwarded) : \A j \in i..Len(forwarded) :
           /\ forwarded[i].score >= forwarded[j].score
           /\ LabelRank(forwarded[i].label) >= LabelRank(forwarded[j].label)
      /\ \A out \in { watch.feed, watch.report, watch.pushed } :
           out.written => out.works = forwarded

\* thresholds with consider above must_read, three works ranked, one of them
\* too old, --top 1: the must_read work alone is forwarded and pushed
C19_Witness ==
    /\ watch.called /\ watch.error = "none"
    /\ ranker.settings.thresholds.consider > ranker.settings.thresholds.must_read
    /\ Len(ranked) = 3 /\ Len(recent) = 2
    /\ ranked[Len(ranked)].label = "ignore"
    /\ top = 1
    /\ Len(forwarded) = 1 /\ forwarded[1].label = "must_read"
    /\ watch.pushed.written /\ watch.pushed.works = forwarded

\* C20: DedupeEngine.filter never modifies the corpus state of the engine
\* (known DOIs, known identifiers, known titles) and keeps no batch state
\* between calls: after any sequence of calls on one engine the engine is
\* what __init__ built from the items table, and the last call returned what
\* a freshly built engine over the same items returns for the same batch.
C20_FilterKeepsNoState ==
    LET fresh == DedupeEngine(storage_items, engine.title_threshold) IN
    /\ engine = fresh
    /\ calls >= 1 => deduped = Filter(fresh, source)

\* the second call on an engine whose library is not empty accepts a
\* candidate the first call accepted
C20_Witness ==
    /\ calls = 2
    /\ storage_items # <<>>
    /\ Len(source) >= 2
    /\ \E i \in 1..Len(deduped), j \in 1..Len(previous) : deduped[i] = previous[j]

\* C21: a publication timestamp without timezone never aborts a watch
\* cycle. Once the ranker is built and rank has returned, the cycle ends
\* without error, and the age cutoff keeps exactly the ranked works that
\* have a timestamp not older than 7 days before the clock reading of the
\* cutoff, a timestamp without timezone read as UTC; a work without
\* timestamp is dropped.
C21_NaiveTimestampNeverAborts ==
    (watch.called /\ watch.ranker_built /\ (candidates = <<>> \/ backend)) =>
      /\ watch.error = "none"
      /\ recent = SelectSeq(ranked, LAMBDA w : /\ w.published # NoneVal
                                               /\ w.published[1] >= clock - 7 * TicksPerDay)

====
